---- MODULE Spec2Model ----
(***************************************************************************)
(* A model of src/src/utils.ts: the helpers that read a source file, build *)
(* the unit-test prompt and the chat-completion request, consume the       *)
(* completion (whole or streamed) and write the output file, and autoTest, *)
(* which runs them in sequence.                                            *)
(*                                                                         *)
(* A JavaScript string is a sequence of one-character strings.  A TLA+     *)
(* string literal cannot hold the grave accent, so that one character is   *)
(* written Backtick.  An optional value is Undefined or Defined(v).  A     *)
(* file is its text; the output file not yet there is the empty text.      *)
(***************************************************************************)
EXTENDS Integers, Sequences, FiniteSets, TLC

VARIABLES
    pc,          \* where autoTest (or the driver of the pure functions) stands
    inputFile,   \* autoTest's inputFile argument, getPrompt's fileName
    inputDisk,   \* the input file on disk: whether it can be read, and its text
    outDisk,     \* the output file on disk
    outDisk0,    \* the output file as it was before the run
    stream,      \* autoTest's stream flag
    techs,       \* the techs argument: Undefined or a list of strings
    tips,        \* the tips argument: Undefined or a list of strings
    examples,    \* the examples argument: Undefined or a list of IExample
    content,     \* autoTest's local `content`
    prompt,      \* autoTest's local `prompt`
    request,     \* autoTest's local `completionRequest`
    requests,    \* the calls made to openai.createChatCompletion, in order
    response,    \* choices[0].message.content of the non-streamed response
    testContent, \* autoTest's local `testContent`
    wire,        \* the bytes of the streamed response body
    pos,         \* how many of them have arrived in chunks so far
    lines,       \* streamTestContent's `lines` for the chunk in hand
    li,          \* the index in `lines` of the line the inner loop handles next
    aligned,     \* whether every chunk so far ended where an event ends
    delivered,   \* the tokens passed to onToken, in order
    writeLog,    \* the calls of writeToFile, in order
    console,     \* what was logged, in order
    exception,   \* what autoTest's promise rejected with, if anything
    listOut      \* the result of the direct call of toList, once made

vars == << pc, inputFile, inputDisk, outDisk, outDisk0, stream, techs, tips,
           examples, content, prompt, request, requests, response, testContent,
           wire, pos, lines, li, aligned, delivered, writeLog, console, exception,
           listOut >>

-----------------------------------------------------------------------------
(* Values that are not strings.                                            *)

\* An optional value x?: T is a record; `value` is read only where `defined`.
Undefined == [defined |-> FALSE, value |-> << >>]
Defined(v) == [defined |-> TRUE, value |-> v]

\* The grave accent.
Backtick == "BACKTICK"

-----------------------------------------------------------------------------
(* String primitives of the JavaScript runtime.                            *)

RECURSIVE Cat(_)
Cat(parts) ==
    IF parts = << >> THEN << >> ELSE Head(parts) \o Cat(Tail(parts))

StartsWith(s, p) ==
    Len(s) >= Len(p) /\ SubSeq(s, 1, Len(p)) = p

\* The characters String.prototype.trim removes, among those of the model.
WhiteSpace == { " ", "\t", "\n", "\r" }

\* The characters a RegExp's ^, $ and . treat as ending a line.
LineTerminators == { "\n", "\r" }

RECURSIVE TrimStart(_)
TrimStart(s) ==
    IF s # << >> /\ Head(s) \in WhiteSpace THEN TrimStart(Tail(s)) ELSE s

RECURSIVE TrimEnd(_)
TrimEnd(s) ==
    IF s # << >> /\ s[Len(s)] \in WhiteSpace
    THEN TrimEnd(SubSeq(s, 1, Len(s) - 1))
    ELSE s

Trim(s) == TrimEnd(TrimStart(s))

\* The least index >= i of s holding a character of `stops`, or Len(s) + 1.
IndexOfAny(s, stops, i) ==
    LET hits == { j \in i..Len(s) : s[j] \in stops }
    IN  IF hits = { } THEN Len(s) + 1
        ELSE CHOOSE j \in hits : \A h \in hits : j <= h

\* s.split(sep) for a one-character separator.
RECURSIVE SplitFrom(_, _, _)
SplitFrom(s, sep, i) ==
    LET j == IndexOfAny(s, {sep}, i)
    IN  IF j > Len(s)
        THEN << SubSeq(s, i, Len(s)) >>
        ELSE << SubSeq(s, i, j - 1) >> \o SplitFrom(s, sep, j + 1)

Split(s, sep) == SplitFrom(s, sep, 1)

\* arr.join(sep)
RECURSIVE Join(_, _)
Join(arr, sep) ==
    IF arr = << >> THEN << >>
    ELSE IF Len(arr) = 1 THEN arr[1]
    ELSE arr[1] \o sep \o Join(Tail(arr), sep)

Digits == << "0", "1", "2", "3", "4", "5", "6", "7", "8", "9" >>

\* String(n) for a natural number n.
RECURSIVE NumberToString(_)
NumberToString(n) ==
    IF n < 10 THEN << Digits[n + 1] >>
    ELSE NumberToString(n \div 10) \o << Digits[(n % 10) + 1] >>

-----------------------------------------------------------------------------
(* toList and getPrompt.                                                   *)

\* The fault of numbering from 0: `${index}. ${tip}`.
ListItemBad(arr, index) ==
    NumberToString(index) \o << ".", " " >> \o arr[index + 1]

\* (tip, index) => `${index + 1}. ${tip}`, index being 0-based.
ListItem(arr, index) ==
    NumberToString(index + 1) \o << ".", " " >> \o arr[index + 1]

toList(arr) ==
    Join([k \in 1..Len(arr) |-> ListItem(arr, k - 1)], << "\r", "\n" >>)

PromptHead ==
    << "I", " ", "n", "e", "e", "d", " ", "u", "n", "i", "t", " ", "t", "e", "s", "t", "s",
       " ", "f", "o", "r", " ", "a", " ", "f", "i", "l", "e", " ", "c", "a", "l", "l", "e",
       "d", " " >>

TechsHead ==
    << " ", "u", "s", "i", "n", "g", " ", "t", "h", "e", " ", "f", "o", "l", "l", "o", "w",
       "i", "n", "g", " ", "t", "e", "c", "h", "n", "o", "l", "o", "g", "i", "e", "s", ":",
       " ", "\n", " ", " ", " ", " ", " ", " " >>

ListTail ==
    << "\n", " ", " ", " ", " " >>

TipsHead ==
    << "H", "e", "r", "e", " ", "a", "r", "e", " ", "s", "o", "m", "e", " ", "t", "i", "p",
       "s", ":", " ", "\n", " ", " ", " ", " ", " ", " " >>

PromptInstruction ==
    << "Y", "o", "u", "r", " ", "a", "n", "s", "w", "e", "r", " ", "s", "h", "o", "u", "l",
       "d", " ", "b", "e", " ", "o", "n", "l", "y", " ", "t", "h", "e", " ", "c", "o", "d",
       "e", " ", "b", "l", "o", "c", "k", ".", " ", "S", "t", "a", "r", "t", " ", "y", "o",
       "u", "r", " ", "r", "e", "s", "p", "o", "n", "s", "e", " ", "w", "i", "t", "h", " ",
       Backtick, Backtick, Backtick, " ", "d", "i", "r", "e", "c", "t", "l", "y", " ", "a",
       "n", "d", " ", "e", "n", "d", " ", "i", "t", " ", "w", "i", "t", "h", " ", Backtick,
       Backtick, Backtick, " ", "o", "n", "l", "y", ",", " ", "d", "o", "n", "'", "t", " ",
       "a", "d", "d", " ", "a", "n", "y", " ", "m", "o", "r", "e", " ", "t", "e", "x", "t",
       "." >>

ContentHead ==
    << "H", "e", "r", "e", " ", "i", "s", " ", "t", "h", "e", " ", "f", "i", "l", "e", " ",
       "c", "o", "n", "t", "e", "n", "t", ":", " ", "\n", " ", " ", " ", " ", Backtick,
       Backtick, Backtick, "\n", " ", " ", " ", " " >>

\* The fault of closing the fence on the line of the content's last character.
ContentTailSameLine ==
    << " ", " ", " ", " ", Backtick, Backtick, Backtick, "\n", " ", " " >>

ContentTail ==
    << "\n", " ", " ", " ", " ", Backtick, Backtick, Backtick, "\n", " ", " " >>

\* techs?.length, tips?.length
HasItems(list) == list.defined /\ Len(list.value) > 0

getPrompt(args) ==
    Cat(<< PromptHead, args.fileName,
           IF HasItems(args.techs)
           THEN TechsHead \o toList(args.techs.value) \o ListTail ELSE << >>,
           IF HasItems(args.tips)
           THEN TipsHead \o toList(args.tips.value) \o ListTail ELSE << >>,
           PromptInstruction,
           ContentHead, args.content, ContentTail >>)

-----------------------------------------------------------------------------
(* getExampleMessages and getCompletionRequest.                            *)

\* The fault of putting an example's answer before its question.
ExampleMessagesSwapped(promptArgs, g) ==
    << [role |-> "Assistant", content |-> g.tests],
       [role |-> "User",
        content |-> getPrompt([promptArgs EXCEPT !.content = g.code,
                                                 !.fileName = g.fileName])] >>

ExampleMessages(promptArgs, g) ==
    << [role |-> "User",
        content |-> getPrompt([promptArgs EXCEPT !.content = g.code,
                                                 !.fileName = g.fileName])],
       [role |-> "Assistant", content |-> g.tests] >>

getExampleMessages(promptArgs, exs) ==
    IF ~exs.defined THEN << >>
    ELSE Cat([k \in 1..Len(exs.value) |-> ExampleMessages(promptArgs, exs.value[k])])

SystemContent ==
    << "Y", "o", "u", " ", "a", "r", "e", " ", "a", "n", " ", "a", "s", "s", "i", "s", "t",
       "a", "n", "t", " ", "t", "h", "a", "t", " ", "p", "r", "o", "v", "i", "d", "e", "s",
       " ", "u", "n", "i", "t", " ", "t", "e", "s", "t", "s", " ", "f", "o", "r", " ", "a",
       " ", "g", "i", "v", "e", "n", " ", "f", "i", "l", "e", "." >>

getCompletionRequest(model, userPrompt, exampleMessages) ==
    [model |-> model,
     messages |-> << [role |-> "System", content |-> SystemContent] >>
                  \o exampleMessages
                  \o << [role |-> "User", content |-> userPrompt] >>]

-----------------------------------------------------------------------------
(* getTestContent: content?.replace(/^```.*$/gm, "").                      *)

Fence == << Backtick, Backtick, Backtick >>

\* The fault of leaving the m flag out: ^ is the start of the text only.
AtLineStartNoM(s, i) == i = 1

\* ^ under the m flag: the start of the text, or just after a line terminator.

AtLineStart(s, i) == i = 1 \/ s[i - 1] \in LineTerminators

\* Whether /^```.*$/m matches at index i of s.  The greedy .* runs to the next
\* line terminator or to the end, which is where $ matches.
FenceMatchesAt(s, i) ==
    /\ AtLineStart(s, i)
    /\ i + 2 <= Len(s)
    /\ SubSeq(s, i, i + 2) = Fence

\* The global replace, scanning from index i: a match is dropped and the scan
\* resumes at its end; any other character is copied.
RECURSIVE ReplaceFencesFrom(_, _)
ReplaceFencesFrom(s, i) ==
    IF i > Len(s) THEN << >>
    ELSE IF FenceMatchesAt(s, i)
    THEN ReplaceFencesFrom(s, IndexOfAny(s, LineTerminators, i + 3))
    ELSE << s[i] >> \o ReplaceFencesFrom(s, i + 1)

\* response.data.choices[0].message.content?.replace(regex, "")
getTestContent(messageContent) ==
    IF messageContent.defined
    THEN Defined(ReplaceFencesFrom(messageContent.value, 1))
    ELSE Undefined

-----------------------------------------------------------------------------
(* streamTestContent: the lines of a chunk, and what one line holds.       *)

DataPrefix ==
    << "d", "a", "t", "a", ":", " " >>

DoneMessage ==
    << "[", "D", "O", "N", "E", "]" >>

\* chunk.toString("utf8").split("\n").filter((line) => line.trim().startsWith("data: "))
IsDataLine(line) == StartsWith(Trim(line), DataPrefix)

ChunkLines(chunk) == SelectSeq(Split(chunk, "\n"), IsDataLine)

\* line.replace(/^data: /, "")
Message(line) ==
    IF StartsWith(line, DataPrefix)
    THEN SubSeq(line, Len(DataPrefix) + 1, Len(line))
    ELSE line

\* The JSON texts of the stream: {"choices":[{"delta":{ MEMBERS }}]} where
\* MEMBERS is empty or "content":"TEXT".
DeltaOpen ==
    << "{", "\"", "c", "h", "o", "i", "c", "e", "s", "\"", ":", "[", "{", "\"", "d", "e", "l",
       "t", "a", "\"", ":", "{" >>

DeltaClose ==
    << "}", "}", "]", "}" >>

ContentKey ==
    << "\"", "c", "o", "n", "t", "e", "n", "t", "\"", ":", "\"" >>

\* The characters that cannot stand unescaped in a JSON string.
JsonStringBreakers == { "\"", "\\", "\n", "\r", "\t" }

IsJsonStringBody(t) == \A k \in 1..Len(t) : t[k] \notin JsonStringBreakers

\* JSON.parse(message) followed by json.choices[0].delta.content, on the texts
\* above; every other text the model can form is a proper prefix of one of
\* them or of [DONE], which JSON.parse rejects with a SyntaxError.
\* threw: JSON.parse threw; token: delta.content, a string or undefined.
ParseDelta(message) ==
    LET n == Len(message)
        o == Len(DeltaOpen)
        c == Len(DeltaClose)
        framed == /\ n >= o + c
                  /\ SubSeq(message, 1, o) = DeltaOpen
                  /\ SubSeq(message, n - c + 1, n) = DeltaClose
        members == SubSeq(message, o + 1, n - c)
        k == Len(ContentKey)
        m == Len(members)
    IN  IF framed /\ members = << >>
        THEN [threw |-> FALSE, token |-> Undefined]
        ELSE IF /\ framed
                /\ m >= k + 1
                /\ SubSeq(members, 1, k) = ContentKey
                /\ members[m] = "\""
                /\ IsJsonStringBody(SubSeq(members, k + 1, m - 1))
        THEN [threw |-> FALSE, token |-> Defined(SubSeq(members, k + 1, m - 1))]
        ELSE [threw |-> TRUE, token |-> Undefined]

\* if (token): undefined and the empty string are falsy.
Truthy(token) == token.defined /\ token.value # << >>

-----------------------------------------------------------------------------
(* readFile and writeToFile.                                               *)

\* fs.readFileSync inside try/catch: the error is logged and "" is returned,
\* so readFile itself never throws.
readFile(disk) ==
    IF disk.readable
    THEN [value |-> disk.text, logged |-> << >>, threw |-> FALSE]
    ELSE [value |-> << >>, logged |-> << "Error reading file" >>, threw |-> FALSE]

\* The faults of ignoring the append argument.
WriteFlagAlwaysW(append) == "w"

WriteFlagAlwaysA(append) == "a"

\* flag: append ? "a" : "w"
WriteFlag(append) == IF append THEN "a" ELSE "w"

\* fs.writeFileSync(path, data, {flag}) when it does not throw.
writeFileSync(disk, data, flag) ==
    IF flag = "a" THEN disk \o data ELSE data

\* Whether fs.writeFileSync throws: on data that is no string (a TypeError,
\* raised before the file is opened), or when the file system refuses
\* (fsFails).  A call that throws leaves the file as it was.
WriteThrows(data, fsFails) == ~data.defined \/ fsFails

\* The fault of writing without the try/catch.
writeToFileNoCatch(disk, data, append, fsFails) ==
    LET throws == WriteThrows(data, fsFails)
    IN  [disk   |-> IF throws THEN disk
                    ELSE writeFileSync(disk, data.value, WriteFlag(append)),
         logged |-> IF throws THEN << >> ELSE << "Successfully wrote to file" >>,
         call   |-> [content |-> data, append |-> append, ok |-> ~throws],
         threw  |-> throws]

\* writeToFile(path, content, append): the write inside try/catch.
\* disk: the file afterwards; logged: the console line; call: the record of
\* this call; threw: whether an error leaves writeToFile.
writeToFile(disk, data, append, fsFails) ==
    LET throws == WriteThrows(data, fsFails)
    IN  [disk   |-> IF throws THEN disk
                    ELSE writeFileSync(disk, data.value, WriteFlag(append)),
         logged |-> IF throws THEN << "Error writing to file" >>
                    ELSE << "Successfully wrote to file" >>,
         call   |-> [content |-> data, append |-> append, ok |-> ~throws],
         threw  |-> FALSE]

-----------------------------------------------------------------------------
(* The bounds of the model and the inputs drawn within them.               *)

MaxEvents == 3      \* server-sent events in a streamed response
MaxPieces == 4      \* pieces a non-streamed response text is made of
MaxList == 2        \* entries of the techs list
MaxExamples == 2    \* few-shot examples

\* All sequences of at most n elements of S.
RECURSIVE SeqsUpTo(_, _)
SeqsUpTo(S, n) ==
    IF n = 0 THEN { << >> }
    ELSE LET shorter == SeqsUpTo(S, n - 1)
         IN  shorter \cup { Append(q, x) : q \in shorter, x \in S }

IModels == { "gpt-3.5-turbo", "gpt-3.5-turbo-0301", "gpt-4" }

Model == "gpt-3.5-turbo"

FileName == << "a", ".", "t", "s" >>

InputDisks ==
    { [readable |-> FALSE, text |-> << >>],
      [readable |-> TRUE, text |-> << "x" >>] }

OldOutputs == { << >>, << "o" >> }

\* Non-streamed response texts: fences, a word, a blank and line ends.
ResponsePieces ==
    { Fence, << "t", "s" >>, << " " >>, << "\n" >>, << "\r" >> }

ResponseContents ==
    { Undefined } \cup { Defined(Cat(q)) : q \in SeqsUpTo(ResponsePieces, MaxPieces) }

\* One server-sent event: a data line and the blank line that ends the event.
Event(payload) == DataPrefix \o payload \o << "\n", "\n" >>

ContentDelta(text) == DeltaOpen \o ContentKey \o text \o << "\"" >> \o DeltaClose

EmptyDelta == DeltaOpen \o DeltaClose

TokenEvents ==
    { Event(ContentDelta(<< "a" >>)), Event(ContentDelta(<< "b" >>)),
      Event(ContentDelta(<< >>)) }

DoneEvent == Event(DoneMessage)

StreamEvents == TokenEvents \cup { Event(EmptyDelta), DoneEvent }

Wires(events, n) == { Cat(q) : q \in SeqsUpTo(events, n) }

\* Where a chunk may end: at the end of an event ...
IsEventEnd(w, i) ==
    i = Len(w) \/ (i > 1 /\ w[i] = "\n" /\ w[i - 1] = "\n")

\* ... or, when the transport cuts a line, d characters into it.
MidLineCuts == { 2, 9 }

IsMidLine(w, i) ==
    \E d \in MidLineCuts :
        /\ i >= d
        /\ (i = d \/ w[i - d] = "\n")
        /\ \A k \in (i - d + 1)..i : w[k] # "\n"

CutPoints(w) == { i \in 1..Len(w) : IsEventEnd(w, i) \/ IsMidLine(w, i) }

ListItems == { << "x" >>, << "y" >> }

TechsArgs == { Undefined } \cup { Defined(q) : q \in SeqsUpTo(ListItems, MaxList) }

TipsArgs == { Undefined, Defined(<< >>), Defined(<< << "t" >> >>) }

PromptFileNames == { FileName, << "b" >> }

PromptContents ==
    { << >>, << "c" >>, Fence,
      << "c", "\n" >> \o Fence \o << "\n", " ", "d" >> }

ExamplePool ==
    { [fileName |-> << "e" >>, code |-> << "1" >>, tests |-> << "T" >>],
      [fileName |-> << "f" >>, code |-> << "2" >>, tests |-> << "U" >>] }

ExamplesArgs ==
    { Undefined } \cup { Defined(q) : q \in SeqsUpTo(ExamplePool, MaxExamples) }

-----------------------------------------------------------------------------
(* autoTest.                                                               *)

NoRequest == [model |-> Model, messages |-> << >>]

Idle ==
    /\ content = << >>
    /\ prompt = << >>
    /\ request = NoRequest
    /\ requests = << >>
    /\ response = Undefined
    /\ testContent = Undefined
    /\ wire = << >>
    /\ pos = 0
    /\ lines = << >>
    /\ li = 1
    /\ aligned = TRUE
    /\ delivered = << >>
    /\ writeLog = << >>
    /\ console = << >>
    /\ exception = "none"
    /\ listOut = Undefined

\* A call autoTest({inputFile, outputFile, apiKey, model, stream}).
Init ==
    /\ pc = "read"
    /\ inputFile = FileName
    /\ inputDisk \in InputDisks
    /\ outDisk \in OldOutputs
    /\ outDisk0 = outDisk
    /\ stream \in BOOLEAN
    /\ techs = Undefined
    /\ tips = Undefined
    /\ examples = Undefined
    /\ Idle

\* Lines 234-246: content = readFile(inputFile) inside try/catch, up to the
\* await of initOpenAI.  The catch runs only if readFile throws.
ReadInput ==
    /\ pc = "read"
    /\ LET r == readFile(inputDisk)
       IN  IF r.threw
           THEN /\ console' = console \o r.logged \o << "Error reading file" >>
                /\ content' = content
                /\ pc' = "exit"
           ELSE /\ console' = console \o r.logged
                /\ content' = r.value
                /\ pc' = "init"
    /\ UNCHANGED << inputFile, inputDisk, outDisk, outDisk0, stream, techs, tips,
                    examples, prompt, request, requests, response, testContent,
                    wire, pos, lines, li, aligned, delivered, writeLog, exception,
                    listOut >>

PromptArgs ==
    [content |-> content, fileName |-> inputFile, techs |-> techs, tips |-> tips]

\* Lines 248-268: the prompt and the request are built and the request is
\* sent, streamed or not, up to the await of the response.
SendRequest ==
    /\ pc = "init"
    /\ LET p == getPrompt(PromptArgs)
           req == getCompletionRequest(Model, p,
                                       getExampleMessages(PromptArgs, examples))
       IN  /\ prompt' = p
           /\ request' = req
           /\ requests' = Append(requests, [request |-> req, stream |-> stream])
    /\ pc' = IF stream THEN "awaitStream" ELSE "awaitCompletion"
    /\ UNCHANGED << inputFile, inputDisk, outDisk, outDisk0, stream, techs, tips,
                    examples, content, response, testContent, wire, pos, lines,
                    li, aligned, delivered, writeLog, console, exception,
                    listOut >>

\* What a call of writeToFile does to autoTest: the file, the logs, and where
\* autoTest goes next (`after`) unless an error leaves writeToFile.
WriteEffect(w, after) ==
    /\ outDisk' = w.disk
    /\ writeLog' = Append(writeLog, w.call)
    /\ console' = console \o w.logged
    /\ IF w.threw
       THEN pc' = "threw" /\ exception' = "WriteError"
       ELSE pc' = after /\ exception' = exception

\* Lines 268-269 with getTestContent: the response arrives, its text is
\* stripped and written over the output file.
CompletionArrives ==
    /\ pc = "awaitCompletion"
    /\ \E r \in ResponseContents, fsFails \in BOOLEAN :
          LET tc == getTestContent(r)
          IN  /\ response' = r
              /\ testContent' = tc
              /\ WriteEffect(writeToFile(outDisk, tc, FALSE, fsFails), "done")
    /\ UNCHANGED << inputFile, inputDisk, outDisk0, stream, techs, tips, examples,
                    content, prompt, request, requests, wire, pos, lines, li,
                    aligned, delivered, listOut >>

\* Lines 180-188: the streamed response is there; its body will arrive in chunks.
StreamOpens ==
    /\ pc = "awaitStream"
    /\ wire' \in Wires(StreamEvents, MaxEvents)
    /\ pos' = 0
    /\ lines' = << >>
    /\ li' = 1
    /\ aligned' = TRUE
    /\ pc' = "stream"
    /\ UNCHANGED << inputFile, inputDisk, outDisk, outDisk0, stream, techs, tips,
                    examples, content, prompt, request, requests, response,
                    testContent, delivered, writeLog, console, exception, listOut >>

\* Lines 190-194: the next chunk arrives, ending at one of the cut points of
\* the body, and is split into its data lines.
NextChunk ==
    /\ pc = "stream"
    /\ li > Len(lines)
    /\ pos < Len(wire)
    /\ \E cut \in { i \in CutPoints(wire) : i > pos } :
          /\ lines' = ChunkLines(SubSeq(wire, pos + 1, cut))
          /\ pos' = cut
          /\ aligned' = (aligned /\ IsEventEnd(wire, cut))
    /\ li' = 1
    /\ UNCHANGED << pc, inputFile, inputDisk, outDisk, outDisk0, stream, techs,
                    tips, examples, content, prompt, request, requests, response,
                    testContent, wire, delivered, writeLog, console, exception,
                    listOut >>

\* Lines 264-266: autoTest's onToken, writeToFile(outputFile, token, true).
AppendToken(token) ==
    \E fsFails \in BOOLEAN :
        WriteEffect(writeToFile(outDisk, Defined(token), TRUE, fsFails), "stream")

\* Lines 196-209: one turn of the inner loop, onToken being autoTest's.
StreamLine ==
    /\ pc = "stream"
    /\ li <= Len(lines)
    /\ LET message == Message(lines[li])
           d == ParseDelta(message)
       IN  IF message = DoneMessage
           THEN /\ pc' = "done"
                /\ UNCHANGED << li, delivered, outDisk, writeLog, console, exception >>
           ELSE IF d.threw
           THEN /\ pc' = "threw"
                /\ exception' = "SyntaxError"
                /\ UNCHANGED << li, delivered, outDisk, writeLog, console >>
           ELSE IF Truthy(d.token)
           THEN /\ delivered' = Append(delivered, d.token.value)
                /\ li' = li + 1
                /\ AppendToken(d.token.value)
           ELSE /\ li' = li + 1
                /\ UNCHANGED << pc, delivered, outDisk, writeLog, console, exception >>
    /\ UNCHANGED << inputFile, inputDisk, outDisk0, stream, techs, tips, examples,
                    content, prompt, request, requests, response, testContent,
                    wire, pos, lines, aligned, listOut >>

\* Line 210: the body has ended and the for-await loop with it.
StreamEnds ==
    /\ pc = "stream"
    /\ li > Len(lines)
    /\ pos = Len(wire)
    /\ pc' = "done"
    /\ UNCHANGED << inputFile, inputDisk, outDisk, outDisk0, stream, techs, tips,
                    examples, content, prompt, request, requests, response,
                    testContent, wire, pos, lines, li, aligned, delivered,
                    writeLog, console, exception, listOut >>

Next ==
    \/ ReadInput
    \/ SendRequest
    \/ CompletionArrives
    \/ StreamOpens
    \/ NextChunk
    \/ StreamLine
    \/ StreamEnds

Spec == Init /\ [][Next]_vars

-----------------------------------------------------------------------------
(* The prompt and request builders called on their own, on arguments drawn *)
(* from the sets above.                                                    *)

InitPrompt ==
    /\ pc = "args"
    /\ inputFile \in PromptFileNames
    /\ inputDisk = [readable |-> TRUE, text |-> << >>]
    /\ outDisk = << >>
    /\ outDisk0 = << >>
    /\ stream = FALSE
    /\ techs \in TechsArgs
    /\ tips \in TipsArgs
    /\ examples \in ExamplesArgs
    /\ Idle

\* toList(techs)
CallToList ==
    /\ pc = "args"
    /\ techs.defined
    /\ listOut' = Defined(toList(techs.value))
    /\ pc' = "listed"
    /\ UNCHANGED << inputFile, inputDisk, outDisk, outDisk0, stream, techs, tips,
                    examples, content, prompt, request, requests, response,
                    testContent, wire, pos, lines, li, aligned, delivered,
                    writeLog, console, exception >>

\* getPrompt({content, fileName, techs, tips})
CallGetPrompt ==
    /\ pc \in { "args", "listed" }
    /\ \E c \in PromptContents :
          /\ content' = c
          /\ prompt' = getPrompt([content |-> c, fileName |-> inputFile,
                                  techs |-> techs, tips |-> tips])
    /\ pc' = "prompted"
    /\ UNCHANGED << inputFile, inputDisk, outDisk, outDisk0, stream, techs, tips,
                    examples, request, requests, response, testContent, wire,
                    pos, lines, li, aligned, delivered, writeLog, console,
                    exception, listOut >>

\* getCompletionRequest(model, prompt, getExampleMessages(promptArgs, examples))
CallGetCompletionRequest ==
    /\ pc = "prompted"
    /\ \E model \in IModels :
          request' = getCompletionRequest(model, prompt,
                                          getExampleMessages(PromptArgs, examples))
    /\ pc' = "requested"
    /\ UNCHANGED << inputFile, inputDisk, outDisk, outDisk0, stream, techs, tips,
                    examples, content, prompt, requests, response, testContent,
                    wire, pos, lines, li, aligned, delivered, writeLog, console,
                    exception, listOut >>

NextPrompt ==
    \/ CallToList
    \/ CallGetPrompt
    \/ CallGetCompletionRequest

SpecPrompt == InitPrompt /\ [][NextPrompt]_vars

-----------------------------------------------------------------------------
(* What the claims are stated with.                                        *)

IsPrefix(p, s) == Len(p) <= Len(s) /\ SubSeq(s, 1, Len(p)) = p

Contains(s, sub) ==
    \E i \in 1..(Len(s) - Len(sub) + 1) : SubSeq(s, i, i + Len(sub) - 1) = sub

Logged(line) == \E k \in 1..Len(console) : console[k] = line

Count(line) == Cardinality({ k \in 1..Len(console) : console[k] = line })

Streaming == stream /\ pc \in { "stream", "done", "threw" }

Over == pc \in { "done", "threw" }

\* The tokens carried by the data lines of the lines ls, from line k on, that
\* come before the first line data: [DONE].
RECURSIVE TokensBeforeDone(_, _)
TokensBeforeDone(ls, k) ==
    IF k > Len(ls) \/ ls[k] = DataPrefix \o DoneMessage THEN << >>
    ELSE LET d == ParseDelta(Message(ls[k]))
         IN  (IF StartsWith(ls[k], DataPrefix) /\ ~d.threw /\ Truthy(d.token)
              THEN << d.token.value >> ELSE << >>)
             \o TokensBeforeDone(ls, k + 1)

WireTokens == TokensBeforeDone(Split(wire, "\n"), 1)

\* streamTestContent's inner loop run over the lines ls from line k on: the
\* tokens it passes to onToken and whether it throws.
RECURSIVE RunLines(_, _)
RunLines(ls, k) ==
    IF k > Len(ls) THEN [tokens |-> << >>, threw |-> FALSE]
    ELSE LET message == Message(ls[k])
             d == ParseDelta(message)
             rest == RunLines(ls, k + 1)
         IN  IF message = DoneMessage THEN [tokens |-> << >>, threw |-> FALSE]
             ELSE IF d.threw THEN [tokens |-> << >>, threw |-> TRUE]
             ELSE IF Truthy(d.token)
             THEN [tokens |-> << d.token.value >> \o rest.tokens, threw |-> rest.threw]
             ELSE rest

\* The whole body arriving as one chunk.
OneChunk == RunLines(ChunkLines(wire), 1)

\* The texts of the calls in log that wrote, one after the other.
RECURSIVE AppendedText(_)
AppendedText(log) ==
    IF log = << >> THEN << >>
    ELSE (IF Head(log).ok THEN Head(log).content.value ELSE << >>)
         \o AppendedText(Tail(log))

WrittenTokens == [k \in 1..Len(writeLog) |-> writeLog[k].content.value]

\* A text cut at every line terminator, and the terminators in order.
RECURSIVE SegmentsFrom(_, _)
SegmentsFrom(s, i) ==
    LET j == IndexOfAny(s, LineTerminators, i)
    IN  IF j > Len(s)
        THEN << SubSeq(s, i, Len(s)) >>
        ELSE << SubSeq(s, i, j - 1) >> \o SegmentsFrom(s, j + 1)

Segments(s) == SegmentsFrom(s, 1)

IsTerminator(c) == c \in LineTerminators

Terminators(s) == SelectSeq(s, IsTerminator)

\* 1. arr[1] CRLF 2. arr[2] CRLF ... n. arr[n]
RECURSIVE Numbered(_, _)
Numbered(arr, n) ==
    IF n = 0 THEN << >>
    ELSE (IF n = 1 THEN << >> ELSE Numbered(arr, n - 1) \o << "\r", "\n" >>)
         \o NumberToString(n) \o << ".", " " >> \o arr[n]

Indent == << " ", " ", " ", " " >>

IsFenceLine(line) == StartsWith(TrimStart(line), Fence)

PromptBuilt == pc \in { "prompted", "requested" }

-----------------------------------------------------------------------------
(* The claims.                                                             *)

\* C1: streaming stops exactly at the terminator.  For every sequence of
\* chunks the tokens passed to onToken are, in order, the non-empty delta
\* contents of the data lines of the stream that precede the first
\* data: [DONE] line, and none is passed for a line at or after it: they
\* are at every point the first of those tokens, and all of them once the
\* function has returned.  Stated of the runs whose input file was read.
C1_StopsAtTerminator ==
    (Streaming /\ inputDisk.readable) =>
        /\ IsPrefix(delivered, WireTokens)
        /\ (pc = "done" => delivered = WireTokens)

\* On the runs whose chunks all end where an event ends, the tokens passed
\* to onToken are those before the terminator and the function does not throw.
StopsAtTerminatorWhenAligned ==
    (Streaming /\ aligned) =>
        /\ IsPrefix(delivered, WireTokens)
        /\ pc # "threw"
        /\ (pc = "done" => delivered = WireTokens)

\* C2: when the input file cannot be read, the failure is logged and the
\* process terminates: no prompt is built, no request is sent and the output
\* file is never written.
C2_ReadFailureTerminates ==
    (~inputDisk.readable /\ pc # "read") =>
        /\ Logged("Error reading file")
        /\ prompt = << >>
        /\ requests = << >>
        /\ writeLog = << >>
        /\ outDisk = outDisk0

\* C3: a failed write is logged and swallowed.  No error ever leaves
\* writeToFile, whatever the content (undefined included) and the append
\* flag, so autoTest is never rejected by a write; each failed call logs one
\* error; when not streaming autoTest is done once the one write was tried;
\* when streaming every token passed to onToken reaches writeToFile, in
\* order, also after a call that failed.
C3_WriteFailureSwallowed ==
    /\ exception # "WriteError"
    /\ Count("Error writing to file")
         = Cardinality({ k \in 1..Len(writeLog) : ~writeLog[k].ok })
    /\ (~stream /\ writeLog # << >>) => pc = "done"
    /\ Streaming => WrittenTokens = delivered

C3_Witness ==
    /\ Streaming
    /\ \E i, j \in 1..Len(writeLog) : i < j /\ ~writeLog[i].ok /\ writeLog[j].ok

\* C4 as amended: when streaming, the output file is at every point its
\* content before the run followed by the tokens whose append did not fail,
\* in arrival order; every token passed to onToken causes exactly one call of
\* writeToFile, in append mode, so the file is never truncated or rewritten.
C4_AppendsWrittenTokens ==
    Streaming =>
        /\ outDisk = outDisk0 \o AppendedText(writeLog)
        /\ WrittenTokens = delivered
        /\ \A k \in 1..Len(writeLog) :
              writeLog[k].append /\ writeLog[k].content.defined

C4_Witness ==
    /\ Streaming
    /\ outDisk0 # << >>
    /\ Len(delivered) >= 2
    /\ delivered[1] # delivered[2]
    /\ \E k \in 1..Len(writeLog) : ~writeLog[k].ok
    /\ \E k \in 1..Len(writeLog) : writeLog[k].ok

\* C4 as stated: when streaming, the output file is at every point its
\* content before the run followed by all the tokens delivered so far.
\* Stated of the runs whose input file was read.
C4_AppendsEveryToken ==
    (Streaming /\ inputDisk.readable) => outDisk = outDisk0 \o Cat(delivered)

\* C5: when not streaming, autoTest sends exactly one request, writes nothing
\* before the response is there, and then calls writeToFile once, in
\* overwrite mode, with the stripped response text: if that write succeeds
\* the file is exactly that text, whatever it held before.
C5_WritesFresh ==
    ~stream =>
        /\ (pc \in { "read", "init" }) => requests = << >>
        /\ (pc \in { "awaitCompletion", "done" }) =>
              /\ Len(requests) = 1
              /\ ~requests[1].stream
              /\ requests[1].request = request
        /\ (pc # "done") => (writeLog = << >> /\ outDisk = outDisk0)
        /\ (pc = "done") =>
              /\ Len(writeLog) = 1
              /\ ~writeLog[1].append
              /\ writeLog[1].content = getTestContent(response)
              /\ writeLog[1].ok => outDisk = getTestContent(response).value

C5_Witness ==
    /\ ~stream
    /\ pc = "done"
    /\ writeLog[1].ok
    /\ outDisk0 # << >>
    /\ response.value # << >>
    /\ outDisk = testContent.value

\* C6: getTestContent strips the triple-backtick lines.  Line by line, a line
\* of the response that starts with three backticks (a language tag or not
\* after them) comes out empty, every other line comes out as it was, and the
\* lines and their terminators keep their number and order; so no line of the
\* result starts with three backticks.
C6_FenceLinesStripped ==
    (pc = "done" /\ ~stream /\ response.defined) =>
        LET from == Segments(response.value)
            to == Segments(testContent.value)
        IN  /\ testContent.defined
            /\ Len(to) = Len(from)
            /\ Terminators(testContent.value) = Terminators(response.value)
            /\ \A k \in 1..Len(from) :
                  /\ to[k] = IF StartsWith(from[k], Fence) THEN << >> ELSE from[k]
                  /\ ~StartsWith(to[k], Fence)

C6_Witness ==
    /\ pc = "done"
    /\ ~stream
    /\ response.defined
    /\ LET from == Segments(response.value)
       IN  /\ Len(from) >= 2
           /\ from[1] # << >>
           /\ ~StartsWith(from[1], Fence)
           /\ StartsWith(from[2], Fence)
           /\ Len(from[2]) > Len(Fence)
    /\ testContent.value # response.value

\* C7: the messages of the request keep call order.  With n examples there
\* are 2n + 2 messages: the system message, then for each example in order a
\* user message with the prompt built from its fileName and code followed by
\* an assistant message with its tests, and last the user message with the
\* main prompt; with no examples, [system, user].
C7_MessagesKeepOrder ==
    (pc = "requested") =>
        LET exs == IF examples.defined THEN examples.value ELSE << >>
            n == Len(exs)
            m == request.messages
        IN  /\ request.model \in IModels
            /\ Len(m) = 2 * n + 2
            /\ m[1] = [role |-> "System", content |-> SystemContent]
            /\ \A k \in 1..n :
                  /\ m[2 * k] =
                       [role |-> "User",
                        content |-> getPrompt([content |-> exs[k].code,
                                               fileName |-> exs[k].fileName,
                                               techs |-> techs, tips |-> tips])]
                  /\ m[2 * k + 1] = [role |-> "Assistant", content |-> exs[k].tests]
            /\ m[2 * n + 2] = [role |-> "User", content |-> prompt]

C7_Witness ==
    /\ pc = "requested"
    /\ examples.defined
    /\ Len(examples.value) = 2
    /\ examples.value[1] # examples.value[2]
    /\ Len(request.messages) = 6

\* C8 as amended: the text of getPrompt contains the file name and ends with
\* a line of four spaces and three backticks, then the file content as it is
\* behind four spaces of indentation, then again a line of four spaces and
\* three backticks, then a line of blanks only; also when the content has a
\* triple-backtick line of its own.
C8_EndsWithIndentedContentBlock ==
    PromptBuilt =>
        LET L == Split(prompt, "\n")
            n == Len(L)
            k == Len(Split(content, "\n"))
        IN  /\ Contains(prompt, inputFile)
            /\ n >= k + 3
            /\ L[n] # << >> /\ Trim(L[n]) = << >>
            /\ L[n - 1] = Indent \o Fence
            /\ L[n - k - 2] = Indent \o Fence
            /\ Join(SubSeq(L, n - k - 1, n - 2), << "\n" >>) = Indent \o content

C8_Witness ==
    /\ PromptBuilt
    /\ \E k \in 1..Len(Split(content, "\n")) : IsFenceLine(Split(content, "\n")[k])
    /\ Len(Split(content, "\n")) >= 2

\* C8 as stated: the text of getPrompt contains the file name and ends with
\* a fenced code block (a triple-backtick line, a body, a triple-backtick
\* line, then blanks only) whose body is equal to the file content.  A
\* fence line may be indented here, and any fence line may open the block.
C8_EndsWithContentBlock ==
    PromptBuilt =>
        LET L == Split(prompt, "\n")
            n == Len(L)
        IN  /\ Contains(prompt, inputFile)
            /\ n >= 3
            /\ Trim(L[n]) = << >>
            /\ IsFenceLine(L[n - 1])
            /\ \E i \in 1..(n - 2) :
                  /\ IsFenceLine(L[i])
                  /\ Join(SubSeq(L, i + 1, n - 2), << "\n" >>) = content

\* C9: numbered lists are 1-indexed.  toList(arr) is the items of arr in
\* order, joined by CRLF, the item at 0-based position i being the number
\* i + 1, a dot, a space and arr[i]; the empty list gives the empty string;
\* and getPrompt holds the technologies list (the tips list) exactly when
\* that list is given and not empty.
C9_ListsAreOneIndexed ==
    /\ listOut.defined =>
          /\ listOut.value = Numbered(techs.value, Len(techs.value))
          /\ (techs.value = << >>) => listOut.value = << >>
          /\ \A i \in 1..Len(techs.value) :
                Contains(listOut.value,
                         NumberToString(i) \o << ".", " " >> \o techs.value[i])
    /\ PromptBuilt =>
          /\ Contains(prompt, TechsHead) <=> HasItems(techs)
          /\ Contains(prompt, TipsHead) <=> HasItems(tips)
          /\ HasItems(techs) =>
                Contains(prompt, TechsHead
                                   \o Numbered(techs.value, Len(techs.value))
                                   \o ListTail)
          /\ HasItems(tips) =>
                Contains(prompt, TipsHead
                                   \o Numbered(tips.value, Len(tips.value))
                                   \o ListTail)

C9_Witness ==
    /\ pc = "listed"
    /\ Len(techs.value) >= 2
    /\ techs.value[1] # techs.value[2]
    /\ Len(listOut.value) > 0

\* C10: the tokens streamTestContent passes to onToken depend only on the
\* bytes of the response body, not on how they are cut into chunks: however
\* the body is cut, the run ends as it does when the body arrives as one
\* chunk, with the same tokens in the same order and without throwing.
\* Stated of the runs whose input file was read.
C10_ChunkingIndependent ==
    (Streaming /\ Over /\ inputDisk.readable) =>
        /\ delivered = OneChunk.tokens
        /\ (pc = "threw") = OneChunk.threw
        /\ pc # "threw"

====
